---------------------------- MODULE Spec2Model ----------------------------
(***************************************************************************)
(* Model of price-tracker-widget (src/main.go): the configuration          *)
(* bootstrap (loadSymbolsFromConfig), the construction of the widget       *)
(* (NewBinanceWidget / initUI), the refresh cycle (updatePrice fanning out *)
(* one updateLabel goroutine per symbol behind a sync.WaitGroup), the      *)
(* 120 s timer and the colour toggle (contextMenuEvent).                   *)
(*                                                                         *)
(* Text is modelled as sequences: a price as a sequence of one-character   *)
(* strings, a label text as the sequence of the pieces fmt.Sprintf joins,  *)
(* the config file as the sequence of JSON tokens a lexer would produce    *)
(* (white space between tokens carries no meaning in JSON and is dropped). *)
(***************************************************************************)
EXTENDS Integers, Sequences, FiniteSets, TLC

VARIABLES
    file,        \* ~/.pricetrack.json: [kind, content]
    pc,          \* position of the main (event-loop) thread
    symbols,     \* w.symbols, as returned by loadSymbolsFromConfig
    loadErr,     \* the error loadSymbolsFromConfig returned ("nil" or a text)
    rows,        \* the QLabels of w.layout in row order: [text, color]
    priceLabels, \* w.priceLabels: symbol -> index of its QLabel in rows
    cycle,       \* number of updatePrice calls started so far
    next,        \* position of updatePrice's range loop over w.symbols
    wg,          \* the WaitGroup counter of the running updatePrice
    running,     \* goroutines in flight: [cycle, idx, symbol]
    got,         \* per list position, what the unit of this cycle fetched
    writes,      \* per row, number of SetText calls of this cycle
    shown        \* widget.Show() was called

vars == <<file, pc, symbols, loadErr, rows, priceLabels, cycle, next, wg,
          running, got, writes, shown>>

----------------------------------------------------------------------------
(* Bounds of the model. *)

\* Longest config file content, in JSON tokens.
MaxTokens == 5

\* Refresh cycles modelled: the one of initUI plus the timer's.
MaxCycles == 3

\* Longest raw price string the exchange answers with, in characters.
MaxPriceLen == 4

----------------------------------------------------------------------------
(* Sequences helpers. *)

SeqsUpTo(S, n) == UNION {[1..k -> S] : k \in 0..n}

Distinct(s) == \A i, j \in 1..Len(s) : i # j => s[i] # s[j]

Last(s) == s[Len(s)]

Front(s) == SubSeq(s, 1, Len(s) - 1)

----------------------------------------------------------------------------
(* var defaultSymbols = []string{"BTC", "ETH", "SOL"} *)

defaultSymbols == <<"BTC", "ETH", "SOL">>

----------------------------------------------------------------------------
(* JSON text of the config file, as tokens. *)

Str(s) == [k |-> "string", v |-> s]

LBracket == [k |-> "punct", v |-> "["]

RBracket == [k |-> "punct", v |-> "]"]

Comma == [k |-> "punct", v |-> ","]

Null == [k |-> "null", v |-> "null"]

Number == [k |-> "number", v |-> "5"]

\* The ticker strings a config file of the model may hold.
FileSymbols == {"BTC", "ETH"}

Tokens == {LBracket, RBracket, Comma, Null, Number} \cup {Str(s) : s \in FileSymbols}

\* A *string of the []*string slice json.Unmarshal fills.
Ptr(s) == [nil |-> FALSE, s |-> s]

NilPtr == [nil |-> TRUE, s |-> ""]

RECURSIVE MarshalElems(_)
MarshalElems(list) ==
    IF Len(list) = 0 THEN <<>>
    ELSE IF Len(list) = 1 THEN <<Str(list[1])>>
    ELSE <<Str(list[1]), Comma>> \o MarshalElems(Tail(list))

\* json.Marshal of a (non-nil) []string.
Marshal(list) == <<LBracket>> \o MarshalElems(list) \o <<RBracket>>

\* encoding/json's scanner (checkValid), on tokens: the position after the
\* JSON value that starts at p, or 0 when none starts there.
RECURSIVE ValueEnd(_, _)
RECURSIVE ElemsEnd(_, _)
ValueEnd(t, p) ==
    IF p > Len(t) THEN 0
    ELSE IF t[p].k \in {"string", "number", "null"} THEN p + 1
    ELSE IF t[p] = LBracket
         THEN IF p + 1 <= Len(t) /\ t[p + 1] = RBracket
              THEN p + 2
              ELSE ElemsEnd(t, p + 1)
    ELSE 0

ElemsEnd(t, p) ==
    LET e == ValueEnd(t, p) IN
    IF e = 0 \/ e > Len(t) THEN 0
    ELSE IF t[e] = RBracket THEN e + 1
    ELSE IF t[e] = Comma THEN ElemsEnd(t, e + 1)
    ELSE 0

checkValid(t) == ValueEnd(t, 1) = Len(t) + 1

\* What decoding one array element into a *string leaves in the slice, and
\* whether it records an UnmarshalTypeError: a string is stored, null leaves
\* the nil pointer, any other value allocates the string and leaves it empty.
DecodeElem(t, p) ==
    IF t[p].k = "string" THEN [ptr |-> Ptr(t[p].v), bad |-> FALSE]
    ELSE IF t[p].k = "null" THEN [ptr |-> NilPtr, bad |-> FALSE]
    ELSE [ptr |-> Ptr(""), bad |-> TRUE]

\* The elements of the array whose first element starts at p.
RECURSIVE DecodeElems(_, _)
DecodeElems(t, p) ==
    IF t[p] = RBracket THEN <<>>
    ELSE LET e == ValueEnd(t, p) IN
         <<DecodeElem(t, p)>> \o
             (IF t[e] = Comma THEN DecodeElems(t, e + 1) ELSE <<>>)

\* A variant that drops an element equal to an earlier one.
RECURSIVE Dedup(_)
Dedup(s) ==
    IF Len(s) = 0 THEN <<>>
    ELSE LET f == Dedup(Front(s)) IN
         IF \E i \in 1..Len(f) : f[i] = Last(s) THEN f ELSE Append(f, Last(s))

UnmarshalDedup(t) ==
    IF ~checkValid(t) THEN [err |-> "invalid character", ptrs |-> <<>>]
    ELSE IF t[1] = LBracket
         THEN LET es == DecodeElems(t, 2) IN
              [err  |-> IF \E i \in 1..Len(es) : es[i].bad
                        THEN "json: cannot unmarshal" ELSE "nil",
               ptrs |-> Dedup([i \in 1..Len(es) |-> es[i].ptr])]
    ELSE IF t[1] = Null THEN [err |-> "nil", ptrs |-> <<>>]
    ELSE [err |-> "json: cannot unmarshal", ptrs |-> <<>>]

\* json.Unmarshal(byteValue, &symbols) with symbols a nil []*string: a syntax
\* error leaves symbols untouched; a value that is not an array is a type
\* error (null is accepted and leaves nil); an array is decoded element by
\* element, the first type error is reported after the whole array is stored.
Unmarshal(t) ==
    IF ~checkValid(t) THEN [err |-> "invalid character", ptrs |-> <<>>]
    ELSE IF t[1] = LBracket
         THEN LET es == DecodeElems(t, 2) IN
              [err  |-> IF \E i \in 1..Len(es) : es[i].bad
                        THEN "json: cannot unmarshal" ELSE "nil",
               ptrs |-> [i \in 1..Len(es) |-> es[i].ptr]]
    ELSE IF t[1] = Null THEN [err |-> "nil", ptrs |-> <<>>]
    ELSE [err |-> "json: cannot unmarshal", ptrs |-> <<>>]

----------------------------------------------------------------------------
(* The config file and its loader. *)

Missing == [kind |-> "missing", content |-> <<>>]

\* The file exists and os.Open fails (e.g. no read permission).
NoPerm == [kind |-> "noperm", content |-> <<>>]

\* os.Open succeeds and io.ReadAll fails (e.g. the path is a directory).
Dir == [kind |-> "dir", content |-> <<>>]

Regular(t) == [kind |-> "regular", content |-> t]

\* os.Open(configPath): "nil", "notexist" (os.IsNotExist) or another error.
Open(f) ==
    IF f.kind = "missing" THEN "notexist"
    ELSE IF f.kind = "noperm" THEN "permission denied"
    ELSE "nil"

\* createDefaultConfig: the file after it, and the error it returns.
createDefaultConfig(f, writeOk) ==
    IF writeOk
    THEN [file |-> Regular(Marshal(defaultSymbols)), err |-> "nil"]
    ELSE [file |-> f, err |-> "create config file"]

\* parseSymbolsFromConfig: only io.ReadAll's error is returned; the error of
\* json.Unmarshal is dropped.
parseSymbolsFromConfig(f) ==
    IF f.kind = "dir"
    THEN [ptrs |-> <<>>, err |-> "can't marshal default symbols"]
    ELSE [ptrs |-> Unmarshal(f.content).ptrs, err |-> "nil"]

\* A variant that treats a failed createDefaultConfig as fatal.
loadSymbolsWriteFatal(f, writeOk) ==
    LET opened == Open(f) IN
    IF opened = "notexist"
    THEN LET c == createDefaultConfig(f, writeOk) IN
         IF c.err # "nil"
         THEN [outcome |-> "return", symbols |-> <<>>, err |-> c.err,
               file |-> c.file]
         ELSE [outcome |-> "return", symbols |-> defaultSymbols,
               err |-> "nil", file |-> c.file]
    ELSE IF opened # "nil"
    THEN [outcome |-> "return", symbols |-> defaultSymbols, err |-> "nil",
          file |-> f]
    ELSE LET parsed == parseSymbolsFromConfig(f) IN
         IF parsed.err # "nil"
         THEN [outcome |-> "return", symbols |-> <<>>, err |-> parsed.err,
               file |-> f]
         ELSE IF \E i \in 1..Len(parsed.ptrs) : parsed.ptrs[i].nil
         THEN [outcome |-> "panic", symbols |-> <<>>, err |-> "nil",
               file |-> f]
         ELSE [outcome |-> "return",
               symbols |-> [i \in 1..Len(parsed.ptrs) |-> parsed.ptrs[i].s],
               err |-> "nil", file |-> f]

\* loadSymbolsFromConfig: what it returns (or that it panics dereferencing a
\* nil *string) and the config file it leaves.
loadSymbolsFromConfig(f, writeOk) ==
    LET opened == Open(f) IN
    IF opened = "notexist"
    THEN [outcome |-> "return", symbols |-> defaultSymbols, err |-> "nil",
          file |-> createDefaultConfig(f, writeOk).file]
    ELSE IF opened # "nil"
    THEN [outcome |-> "return", symbols |-> defaultSymbols, err |-> "nil",
          file |-> f]
    ELSE LET parsed == parseSymbolsFromConfig(f) IN
         IF parsed.err # "nil"
         THEN [outcome |-> "return", symbols |-> <<>>, err |-> parsed.err,
               file |-> f]
         ELSE IF \E i \in 1..Len(parsed.ptrs) : parsed.ptrs[i].nil
         THEN [outcome |-> "panic", symbols |-> <<>>, err |-> "nil",
               file |-> f]
         ELSE [outcome |-> "return",
               symbols |-> [i \in 1..Len(parsed.ptrs) |-> parsed.ptrs[i].s],
               err |-> "nil", file |-> f]

----------------------------------------------------------------------------
(* What http.Get and the decoder of updateLabel can meet. *)

\* A field of the JSON object of a response body; val is a string of
\* characters, isString tells a JSON string from a JSON number.
Field(key, isString, val) == [key |-> key, isString |-> isString, val |-> val]

\* http.Get failed: no response.
NetErr == [kind |-> "neterr", status |-> 0, syntaxOk |-> FALSE, fields |-> <<>>]

\* A response whose body is a JSON object with these fields.
Http(status, fields) ==
    [kind |-> "http", status |-> status, syntaxOk |-> TRUE, fields |-> fields]

\* A response whose body is not JSON.
Garbage(status) ==
    [kind |-> "http", status |-> status, syntaxOk |-> FALSE, fields |-> <<>>]

\* No response yet.
NoResponse == [kind |-> "none", status |-> 0, syntaxOk |-> FALSE, fields |-> <<>>]

Quote(price) == Http(200, <<Field("price", TRUE, price)>>)

\* Binance's answer to an unknown symbol:
\* 400 {"code":-1121,"msg":"Invalid symbol."}
InvalidSymbol ==
    Http(400, <<Field("code", FALSE, <<"-", "1">>), Field("msg", TRUE, <<"x">>)>>)

\* A 2xx answer whose object has no price field.
NoPriceField == Http(200, <<>>)

\* A non-2xx answer whose object holds strings only.
Unavailable == Http(503, <<Field("msg", TRUE, <<"x">>)>>)

PriceChars == {"0", "1", "5", "."}

PriceStrings == SeqsUpTo(PriceChars, MaxPriceLen)

\* The answers the refresh cycle is run against.
Responses ==
    {NetErr, Garbage(200), InvalidSymbol, NoPriceField, Unavailable,
     Quote(<<"1", ".", "5", "0">>), Quote(<<"1", "0", "0">>)}

\* The answers the formatting is run against: every raw price string.
PriceResponses == {NetErr} \cup {Quote(p) : p \in PriceStrings}

\* json.NewDecoder(resp.Body).Decode(&data) into a map[string]string: a
\* syntax error or a value that is not a string is an error.
Decode(resp) ==
    IF ~resp.syntaxOk THEN "invalid character"
    ELSE IF \E i \in 1..Len(resp.fields) : ~resp.fields[i].isString
    THEN "json: cannot unmarshal number"
    ELSE "nil"

\* data["price"]: the value of the last field of that key, "" without one.
RECURSIVE Lookup(_, _)
Lookup(fields, key) ==
    IF Len(fields) = 0 THEN <<>>
    ELSE IF Last(fields).key = key THEN Last(fields).val
    ELSE Lookup(Front(fields), key)

\* strings.TrimRight(price, "0")
RECURSIVE TrimRightZeros(_)
TrimRightZeros(price) ==
    IF Len(price) > 0 /\ Last(price) = "0"
    THEN TrimRightZeros(Front(price))
    ELSE price

\* if strings.HasSuffix(price, ".") { price = price[:len(price)-1] }
DropDotSuffix(price) ==
    IF Len(price) > 0 /\ Last(price) = "." THEN Front(price) ELSE price

\* The price as updateLabel displays it.
FormatPrice(price) == DropDotSuffix(TrimRightZeros(price))

\* fmt.Sprintf("Error: %v", err)
ErrorText(err) == <<"Error: ", err>>

\* fmt.Sprintf("%s/USDT: %s", symbol, price)
PriceText(symbol, price) == <<symbol, "/USDT: ">> \o price

Loading == <<"Loading...">>

\* The text updateLabel sets on the symbol's label for a given answer.
LabelText(symbol, resp) ==
    IF resp.kind = "neterr" THEN ErrorText("Get: dial tcp")
    ELSE IF Decode(resp) # "nil" THEN ErrorText(Decode(resp))
    ELSE PriceText(symbol, FormatPrice(Lookup(resp.fields, "price")))

----------------------------------------------------------------------------
(* The widget. *)

\* label.SetStyleSheet("color: rgb(0, 255, 0)")
Green == <<0, 255, 0>>

\* gui.NewQColor3(255-Red, 255-Green, 255-Blue, 255)
Invert(c) == <<255 - c[1], 255 - c[2], 255 - c[3]>>

\* initUI's loop: one new label per list entry, in row order.
NewRows(syms) == [i \in 1..Len(syms) |-> [text |-> Loading, color |-> Green]]

\* initUI's loop: w.priceLabels[symbol] = label; a later entry of the same
\* symbol replaces the earlier one in the map.
NewPriceLabels(syms) ==
    [s \in {syms[i] : i \in 1..Len(syms)} |->
        CHOOSE i \in 1..Len(syms) :
            syms[i] = s /\ \A j \in (i + 1)..Len(syms) : syms[j] # s]

\* A variant that looks up the label of the first symbol.
LabelOfFirst(symbol) == priceLabels[symbols[1]]

\* w.priceLabels[symbol], the label updateLabel writes.
LabelOf(symbol) == priceLabels[symbol]

\* A variant of wg.Wait() that does not block.
WaitReturnsAtOnce(counter) == counter >= 0

\* wg.Wait() returns when the counter is zero.
WaitReturns(counter) == counter = 0

\* A variant in which the timer's slot runs off the event loop, while the
\* shown widget is inside updatePrice.
TimerCanFireAnyTime == pc = "exec" \/ (pc = "updatePrice" /\ shown)

\* The QTimer's timeout is delivered by the event loop of QApplication_Exec,
\* on the main thread, when no other handler is running.
TimerCanFire == pc = "exec"

\* main: symbols, err := loadSymbolsFromConfig()
Load ==
    /\ pc = "main"
    /\ \E writeOk \in BOOLEAN :
         LET r == loadSymbolsFromConfig(file, writeOk) IN
         /\ file' = r.file
         /\ symbols' = r.symbols
         /\ loadErr' = r.err
         /\ pc' = IF r.outcome = "panic" THEN "panic" ELSE "loaded"
    /\ UNCHANGED <<rows, priceLabels, cycle, next, wg, running, got, writes,
                   shown>>

\* main: if err != nil { log.Fatal(err) }
Fatal ==
    /\ pc = "loaded"
    /\ loadErr # "nil"
    /\ pc' = "fatal"
    /\ UNCHANGED <<file, symbols, loadErr, rows, priceLabels, cycle, next, wg,
                   running, got, writes, shown>>

\* The entry of updatePrice: a fresh WaitGroup and the start of the loop.
BeginUpdatePrice ==
    /\ cycle' = cycle + 1
    /\ next' = 1
    /\ wg' = 0
    /\ got' = [i \in 1..Len(symbols) |-> NoResponse]
    /\ writes' = [i \in 1..Len(symbols) |-> 0]
    /\ pc' = "updatePrice"

\* NewBinanceWidget and initUI up to its call of w.updatePrice().
NewBinanceWidget ==
    /\ pc = "loaded"
    /\ loadErr = "nil"
    /\ rows' = NewRows(symbols)
    /\ priceLabels' = NewPriceLabels(symbols)
    /\ BeginUpdatePrice
    /\ UNCHANGED <<file, symbols, loadErr, running, shown>>

\* updatePrice's loop body: wg.Add(1); go func(symbol) {...}(symbol)
Launch ==
    /\ pc = "updatePrice"
    /\ next <= Len(symbols)
    /\ wg' = wg + 1
    /\ running' = running \cup
                    {[cycle |-> cycle, idx |-> next, symbol |-> symbols[next]]}
    /\ next' = next + 1
    /\ UNCHANGED <<file, pc, symbols, loadErr, rows, priceLabels, cycle, got,
                   writes, shown>>

\* One goroutine: updateLabel(symbol) against the answer resp, then wg.Done().
\* Until SetText the goroutine touches only its own locals, so the fetch, the
\* decoding and the write are one step.
UpdateLabel(g, resp) ==
    /\ g \in running
    /\ rows' = [rows EXCEPT ![LabelOf(g.symbol)].text = LabelText(g.symbol, resp)]
    /\ writes' = [writes EXCEPT ![LabelOf(g.symbol)] = @ + 1]
    /\ got' = [got EXCEPT ![g.idx] = resp]
    /\ running' = running \ {g}
    /\ wg' = wg - 1
    /\ UNCHANGED <<file, pc, symbols, loadErr, priceLabels, cycle, next, shown>>

\* updatePrice's wg.Wait() and return: to initUI (which starts the timer and
\* returns to main) for the first cycle, to the event loop afterwards.
Wait ==
    /\ pc = "updatePrice"
    /\ next > Len(symbols)
    /\ WaitReturns(wg)
    /\ pc' = IF shown THEN "exec" ELSE "show"
    /\ UNCHANGED <<file, symbols, loadErr, rows, priceLabels, cycle, next, wg,
                   running, got, writes, shown>>

\* main: widget.Show(); widgets.QApplication_Exec()
Show ==
    /\ pc = "show"
    /\ shown' = TRUE
    /\ pc' = "exec"
    /\ UNCHANGED <<file, symbols, loadErr, rows, priceLabels, cycle, next, wg,
                   running, got, writes>>

\* The timer's timeout, connected to w.updatePrice.
TimerTick ==
    /\ TimerCanFire
    /\ cycle < MaxCycles
    /\ BeginUpdatePrice
    /\ UNCHANGED <<file, symbols, loadErr, rows, priceLabels, running, shown>>

\* contextMenuEvent: w.symbols[0] panics on an empty list; otherwise every
\* label of the map gets the inverse of the first symbol's label colour.
contextMenuEvent ==
    /\ pc = "exec"
    /\ IF Len(symbols) = 0
       THEN pc' = "panic" /\ UNCHANGED rows
       ELSE /\ LET newColor == Invert(rows[priceLabels[symbols[1]]].color) IN
               rows' = [i \in 1..Len(rows) |->
                          IF \E s \in DOMAIN priceLabels : priceLabels[s] = i
                          THEN [rows[i] EXCEPT !.color = newColor]
                          ELSE rows[i]]
            /\ UNCHANGED pc
    /\ UNCHANGED <<file, symbols, loadErr, priceLabels, cycle, next, wg,
                   running, got, writes, shown>>

----------------------------------------------------------------------------
(* The whole program, from main, over every config file of the bounds. *)

ConfigFiles ==
    {Missing, NoPerm, Dir} \cup {Regular(t) : t \in SeqsUpTo(Tokens, MaxTokens)}

Init ==
    /\ file \in ConfigFiles
    /\ pc = "main"
    /\ symbols = <<>>
    /\ loadErr = "nil"
    /\ rows = <<>>
    /\ priceLabels = <<>>
    /\ cycle = 0
    /\ next = 1
    /\ wg = 0
    /\ running = {}
    /\ got = <<>>
    /\ writes = <<>>
    /\ shown = FALSE

Next ==
    \/ Load
    \/ Fatal
    \/ NewBinanceWidget
    \/ Launch
    \/ \E g \in running, resp \in Responses : UpdateLabel(g, resp)
    \/ Wait
    \/ Show
    \/ TimerTick
    \/ contextMenuEvent

Spec == Init /\ [][Next]_vars

----------------------------------------------------------------------------
(* The refresh cycle of a widget tracking one symbol, over every raw price *)
(* string of the bounds: the state initUI is in when it calls updatePrice  *)
(* after loading the config file ["BTC"].                                   *)

InitFormat ==
    /\ file = Regular(Marshal(<<"BTC">>))
    /\ pc = "updatePrice"
    /\ symbols = <<"BTC">>
    /\ loadErr = "nil"
    /\ rows = NewRows(<<"BTC">>)
    /\ priceLabels = NewPriceLabels(<<"BTC">>)
    /\ cycle = 1
    /\ next = 1
    /\ wg = 0
    /\ running = {}
    /\ got = <<NoResponse>>
    /\ writes = <<0>>
    /\ shown = FALSE

NextFormat ==
    \/ Launch
    \/ \E g \in running, resp \in PriceResponses : UpdateLabel(g, resp)
    \/ Wait
    \/ Show
    \/ TimerTick
    \/ contextMenuEvent

SpecFormat == InitFormat /\ [][NextFormat]_vars

----------------------------------------------------------------------------
(* Vocabulary of the properties. *)

\* updatePrice has returned to its caller (and the process is alive).
CycleReturned == pc \in {"show", "exec"} /\ cycle >= 1

\* loadSymbolsFromConfig has returned without error.
LoadedWithoutError ==
    pc \in {"loaded", "updatePrice", "show", "exec"} /\ loadErr = "nil"

\* The unit launched for list position i in this cycle has completed.
UnitDone(i) == got[i] # NoResponse

IsErrorText(text) == Len(text) >= 1 /\ text[1] = "Error: "

IsPriceText(text, symbol) ==
    Len(text) >= 2 /\ text[1] = symbol /\ text[2] = "/USDT: "

\* The token sequence is a JSON array of strings.
IsStringArray(t) ==
    /\ Len(t) >= 2
    /\ t[1] = LBracket
    /\ t[Len(t)] = RBracket
    /\ Len(t) = 2 \/ Len(t) % 2 = 1
    /\ \A i \in 2..(Len(t) - 1) :
          IF i % 2 = 0 THEN t[i].k = "string" ELSE t[i] = Comma

\* The fetch failed: network error, non-2xx status, malformed JSON, or an
\* object without a price field.
FetchFailed(resp) ==
    \/ resp.kind = "neterr"
    \/ resp.status < 200
    \/ resp.status > 299
    \/ ~resp.syntaxOk
    \/ ~\E i \in 1..Len(resp.fields) : resp.fields[i].key = "price"

\* Decimal digits with at most one decimal point.
WellFormedPrice(p) ==
    /\ \A i \in 1..Len(p) : p[i] \in {"0", "1", "2", "3", "4", "5", "6", "7", "8", "9", "."}
    /\ Cardinality({i \in 1..Len(p) : p[i] = "."}) <= 1

\* Trailing zeros removed from the fractional part only, then a trailing
\* point removed; a string without a point is left as it is.
RECURSIVE TrimFraction(_)
TrimFraction(p) ==
    IF ~\E i \in 1..Len(p) : p[i] = "." THEN p
    ELSE IF Last(p) = "0" THEN TrimFraction(Front(p))
    ELSE IF Last(p) = "." THEN Front(p)
    ELSE p

----------------------------------------------------------------------------
(* C1: cycle barrier. Whenever updatePrice has returned to its caller, no  *)
(* unit it launched is still running: every one of the N units has         *)
(* completed and has written a price or an error to its symbol's label.    *)

CycleBarrier ==
    CycleReturned =>
        /\ running = {}
        /\ \A i \in 1..Len(symbols) :
              /\ UnitDone(i)
              /\ rows[priceLabels[symbols[i]]].text # Loading

\* A timer cycle over the three default symbols has returned, all done.
CycleBarrierWitness ==
    /\ pc = "exec"
    /\ cycle = 2
    /\ symbols = defaultSymbols
    /\ running = {}
    /\ \A i \in 1..3 : UnitDone(i)
    /\ got[1] = NetErr
    /\ got[3] = Quote(<<"1", ".", "5", "0">>)

----------------------------------------------------------------------------
(* C2: per-symbol isolation. In a cycle over distinct symbols the text of  *)
(* a symbol's label is the one its own fetch gives, whatever the other     *)
(* units fetched and in whatever order they ran: a price line when its     *)
(* fetch decoded, an error line when it did not; and no failure stops the  *)
(* cycle (the other units stay to be run or done, the process alive).      *)

PerSymbolIsolation ==
    (Distinct(symbols) /\ cycle >= 1 /\ pc # "panic") =>
        \A i \in 1..Len(symbols) :
            IF UnitDone(i)
            THEN /\ rows[i].text = LabelText(symbols[i], got[i])
                 /\ (got[i].kind = "http" /\ Decode(got[i]) = "nil")
                        => IsPriceText(rows[i].text, symbols[i])
                 /\ got[i].kind = "neterr" => IsErrorText(rows[i].text)
            ELSE \/ pc = "updatePrice" /\ next <= i
                 \/ \E g \in running : g.idx = i

\* BTC succeeded and shows its price line although ETH's fetch failed.
PerSymbolIsolationWitness ==
    /\ pc = "exec"
    /\ symbols = <<"BTC", "ETH">>
    /\ got[1] = Quote(<<"1", ".", "5", "0">>)
    /\ got[2] = NetErr
    /\ rows[1].text = <<"BTC", "/USDT: ", "1", ".", "5">>
    /\ IsErrorText(rows[2].text)

----------------------------------------------------------------------------
(* C3: every failed fetch (network error, non-2xx status, malformed JSON,  *)
(* object without a price field) leaves an "Error: ..." text on the        *)
(* symbol's label and never a "<SYMBOL>/USDT: ..." price line.             *)

FailedFetchShowsError ==
    (Distinct(symbols) /\ cycle >= 1 /\ pc # "panic") =>
        \A i \in 1..Len(symbols) :
            (UnitDone(i) /\ FetchFailed(got[i])) =>
                /\ IsErrorText(rows[i].text)
                /\ ~IsPriceText(rows[i].text, symbols[i])

----------------------------------------------------------------------------
(* C4: whenever loadSymbolsFromConfig has returned without error the list  *)
(* has at least one entry, so that contextMenuEvent's w.symbols[0] never   *)
(* panics.                                                                 *)

NonEmptyAfterLoad ==
    /\ LoadedWithoutError => Len(symbols) >= 1
    /\ ~(pc = "panic" /\ cycle >= 1)

----------------------------------------------------------------------------
(* C5: when the config file opens and its content is not a JSON array of   *)
(* strings, the loader returns an error (and no list with a nil error).    *)

MalformedConfigSurfaced ==
    (pc # "main" /\ file.kind = "regular" /\ ~IsStringArray(file.content)) =>
        (pc \in {"loaded", "fatal"} /\ loadErr # "nil")

----------------------------------------------------------------------------
(* C6: default bootstrap. With no config file the loader returns exactly   *)
(* BTC, ETH, SOL and no error, and leaves either the file written with     *)
(* exactly ["BTC","ETH","SOL"] or, the write having failed, no file; with  *)
(* a file that cannot be opened it returns the same list, no error, and    *)
(* creates nothing.                                                        *)

DefaultBootstrap ==
    [][(pc = "main" /\ pc' # "main" /\ file \in {Missing, NoPerm}) =>
          /\ pc' = "loaded"
          /\ loadErr' = "nil"
          /\ symbols' = <<"BTC", "ETH", "SOL">>
          /\ file = NoPerm => file' = NoPerm
          /\ file = Missing =>
                file' \in {Missing,
                           Regular(<<LBracket, Str("BTC"), Comma, Str("ETH"),
                                     Comma, Str("SOL"), RBracket>>)}]_vars

\* The write failed: the default list is returned and there is still no file.
DefaultBootstrapWitness ==
    /\ pc = "loaded"
    /\ file = Missing
    /\ loadErr = "nil"
    /\ symbols = <<"BTC", "ETH", "SOL">>

----------------------------------------------------------------------------
(* C7: trim correctness. For a raw price of decimal digits with at most    *)
(* one decimal point the label shows the raw string with the trailing      *)
(* zeros of its fractional part removed and a then-trailing point removed; *)
(* the integer digits are unchanged.                                       *)

TrimCorrect ==
    \A i \in 1..Len(symbols) :
        (UnitDone(i) /\ got[i].kind = "http"
            /\ WellFormedPrice(Lookup(got[i].fields, "price"))) =>
            rows[i].text =
                <<symbols[i], "/USDT: ">> \o TrimFraction(Lookup(got[i].fields, "price"))

----------------------------------------------------------------------------
(* C8: single-writer slots. No two units in flight write the same label,   *)
(* and when a cycle has returned every label of the layout was written     *)
(* exactly once in it.                                                     *)

SingleWriterSlots ==
    /\ \A g1, g2 \in running :
          g1 # g2 => priceLabels[g1.symbol] # priceLabels[g2.symbol]
    /\ CycleReturned => \A i \in 1..Len(rows) : writes[i] = 1

----------------------------------------------------------------------------
(* C9: config round trip. When the config file holds a JSON array of       *)
(* strings the loader returns exactly that sequence (same length, order    *)
(* and duplicates) with no error and leaves the file as it was.            *)

ConfigRoundTrip ==
    [][(pc = "main" /\ pc' # "main" /\ file.kind = "regular") =>
          \A l \in SeqsUpTo(FileSymbols, MaxTokens) :
              file.content = Marshal(l) =>
                  /\ pc' = "loaded"
                  /\ loadErr' = "nil"
                  /\ symbols' = l
                  /\ file' = file]_vars

\* A list with a duplicate was loaded as it stands in the file.
ConfigRoundTripWitness ==
    /\ pc = "loaded"
    /\ loadErr = "nil"
    /\ file = Regular(<<LBracket, Str("BTC"), Comma, Str("BTC"), RBracket>>)
    /\ symbols = <<"BTC", "BTC">>

----------------------------------------------------------------------------
(* C10: refresh cycles never overlap. Every unit in flight belongs to the  *)
(* cycle the main thread is blocked in, so at most len(symbols) units run  *)
(* at a time; and the window is shown only after the first cycle ended.    *)

CyclesNeverOverlap ==
    /\ \A g \in running : g.cycle = cycle /\ pc = "updatePrice"
    /\ Cardinality(running) <= Len(symbols)
    /\ shown => (cycle >= 1 /\ ~(cycle = 1 /\ pc = "updatePrice"))

\* A timer-triggered cycle of the shown widget with all three units in flight.
CyclesNeverOverlapWitness ==
    /\ shown
    /\ cycle = 2
    /\ pc = "updatePrice"
    /\ Len(symbols) = 3
    /\ Cardinality(running) = 3

=============================================================================
